---- MODULE Spec2Model ----
(***************************************************************************)
(* Batch revision of a versioned spreadsheet (src/src/gas/Code.ts).        *)
(*                                                                         *)
(* Strings are sequences of one-character strings, so that trimming and    *)
(* comparison are computed rather than assumed.  A grid is a sequence of   *)
(* rows, a row a sequence of cells, a cell a string.  Sequences are        *)
(* 1-based here; the code's 0-based index i is the model's i + 1, and the  *)
(* code's rowIndex (i + 1, the 1-based sheet row) is the model's position  *)
(* of the row in the grid.                                                 *)
(***************************************************************************)
EXTENDS Integers, Sequences, FiniteSets, TLC

(* ------------------------------------------------------------------ *)
(* Bounds of the model                                                 *)
(* ------------------------------------------------------------------ *)

\* Largest number of data rows of a source grid.
MaxRows == 3

\* Batch sizes 1..MaxBatchSize are explored next to the deployed BATCH_SIZE.
MaxBatchSize == 2

\* Largest length of an array handed to chunkArray on its own.
MaxItems == 7

\* The turns of chunkArray's loop that are followed; a loop that is still
\* running after them is left there.
MaxChunkSteps == 9

\* Largest number of headers handed to generateSchema on its own.
MaxHeaders == 2

(* ------------------------------------------------------------------ *)
(* Program constants                                                   *)
(* ------------------------------------------------------------------ *)

BATCH_SIZE == 5

(* ------------------------------------------------------------------ *)
(* Strings                                                             *)
(* ------------------------------------------------------------------ *)

Blank == " "

RECURSIVE TrimLeft(_)
TrimLeft(s) ==
    IF s # <<>> /\ Head(s) = Blank THEN TrimLeft(Tail(s)) ELSE s

RECURSIVE TrimRight(_)
TrimRight(s) ==
    IF s # <<>> /\ s[Len(s)] = Blank
    THEN TrimRight(SubSeq(s, 1, Len(s) - 1))
    ELSE s

\* String.prototype.trim
Trim(s) == TrimRight(TrimLeft(s))

Digits == <<"0", "1", "2", "3", "4", "5", "6", "7", "8", "9">>

\* The decimal digits of n >= 0, as a template literal prints them.
RECURSIVE NumberToString(_)
NumberToString(n) ==
    IF n < 10 THEN <<Digits[n + 1]>>
    ELSE Append(NumberToString(n \div 10), Digits[(n % 10) + 1])

(* ------------------------------------------------------------------ *)
(* The inputs of a run                                                 *)
(* ------------------------------------------------------------------ *)

\* The header row: the No column of a plan sheet and, rightmost, the
\* comment column.
Headers == << <<"N", "o">>, <<"C">> >>

\* No comment, a comment of white space only, a comment.
CommentCells == { <<>>, <<Blank>>, <<"c">> }

RECURSIVE SeqsUpTo(_, _)
SeqsUpTo(S, n) ==
    IF n = 0 THEN { <<>> }
    ELSE LET shorter == SeqsUpTo(S, n - 1)
         IN  shorter \cup { Append(q, x) : q \in { p \in shorter : Len(p) = n - 1 }, x \in S }

\* The data rows of a plan sheet: the k-th plan carries its number k in the
\* No column, and comments[k] in the comment column.
PlanRows(comments) == [k \in 1..Len(comments) |-> <<NumberToString(k), comments[k]>>]

\* The empty grid, and every grid of a header and up to MaxRows data rows.
Grids ==
    { <<>> } \cup { <<Headers>> \o PlanRows(comments) : comments \in SeqsUpTo(CommentCells, MaxRows) }

BatchSizes == (1..MaxBatchSize) \cup { BATCH_SIZE }

(* ------------------------------------------------------------------ *)
(* chunkArray                                                          *)
(* ------------------------------------------------------------------ *)

Min(a, b) == IF a < b THEN a ELSE b

Max(a, b) == IF a > b THEN a ELSE b

\* Array.prototype.slice's reading of an index: a negative one counts from
\* the end, and the result is clamped to 0..len.
RelativeIndex(k, len) == IF k < 0 THEN Max(len + k, 0) ELSE Min(k, len)

\* Slice keeping one element less at the end.
SliceShort(array, from, to) ==
    SubSeq(array, RelativeIndex(from, Len(array)) + 1,
                  RelativeIndex(to, Len(array)) - 1)

\* Array.prototype.slice(from, to): 0-based, end exclusive.
Slice(array, from, to) ==
    SubSeq(array, RelativeIndex(from, Len(array)) + 1, RelativeIndex(to, Len(array)))

RECURSIVE ChunkLoop(_, _, _, _)
ChunkLoop(array, size, i, chunks) ==
    IF i < Len(array)
    THEN ChunkLoop(array, size, i + size, Append(chunks, Slice(array, i, i + size)))
    ELSE chunks

\* chunkArray giving one empty chunk for an empty array.
chunkArrayNeverEmpty(array, size) ==
    IF array = <<>> THEN << <<>> >> ELSE ChunkLoop(array, size, 0, <<>>)

\* chunkArray(array, size), for a size >= 1 (the loop does not end otherwise).
chunkArray(array, size) == ChunkLoop(array, size, 0, <<>>)

(* ------------------------------------------------------------------ *)
(* Sheet names and version resolution                                  *)
(* ------------------------------------------------------------------ *)

NameVER1 == <<"V", "E", "R", "1">>

NameBacklog == <<"B", "a", "c", "k", "l", "o", "g">>

NameWhitepaperPlans ==
    <<"W", "h", "i", "t", "e", "p", "a", "p", "e", "r", " ", "P", "l", "a", "n", "s">>

IsDigit(c) == \E d \in 1..10 : Digits[d] = c

DigitVal(c) == (CHOOSE d \in 1..10 : Digits[d] = c) - 1

\* parseInt of a string of decimal digits.
RECURSIVE ParseInt(_)
ParseInt(s) ==
    IF s = <<>> THEN 0
    ELSE 10 * ParseInt(SubSeq(s, 1, Len(s) - 1)) + DigitVal(s[Len(s)])

\* name.match(/^VER(\d+)$/i): the letters in either case, then digits only.
MatchesVER(name) ==
    /\ Len(name) >= 4
    /\ name[1] \in {"V", "v"}
    /\ name[2] \in {"E", "e"}
    /\ name[3] \in {"R", "r"}
    /\ \A k \in 4..Len(name) : IsDigit(name[k])

\* parseInt(match[1])
VerOf(name) == ParseInt(SubSeq(name, 4, Len(name)))

\* The first loop of detectSourceSheet: acc is
\* [highestVer, highestVerSheet, whitepaperPlansSheet], a sheet being its
\* position in the workbook and 0 standing for null.
RECURSIVE DetectScan(_, _, _)
DetectScan(names, k, acc) ==
    IF k > Len(names) THEN acc
    ELSE LET name == names[k]
             higher == MatchesVER(name) /\ VerOf(name) > acc.highestVer
             acc1 == IF higher
                     THEN [acc EXCEPT !.highestVer = VerOf(name), !.highestVerSheet = k]
                     ELSE acc
             acc2 == IF name = NameWhitepaperPlans
                     THEN [acc1 EXCEPT !.whitepaperPlansSheet = k]
                     ELSE acc1
         IN  DetectScan(names, k + 1, acc2)

\* The first position of names that satisfies P, 0 when there is none.
FirstWhere(names, P(_)) ==
    IF \E k \in 1..Len(names) : P(names[k])
    THEN CHOOSE k \in 1..Len(names) :
            P(names[k]) /\ \A j \in 1..(k - 1) : ~P(names[j])
    ELSE 0

\* detectSourceSheet(ss): the position in the workbook of the source sheet.
detectSourceSheet(names) ==
    LET acc == DetectScan(names, 1,
                   [highestVer |-> 0, highestVerSheet |-> 0, whitepaperPlansSheet |-> 0])
        IsVER1(n) == n = NameVER1
        NotBacklog(n) == n # NameBacklog
    IN  IF acc.highestVerSheet # 0 THEN acc.highestVerSheet
        ELSE IF acc.whitepaperPlansSheet # 0 THEN acc.whitepaperPlansSheet
        ELSE IF FirstWhere(names, IsVER1) # 0 THEN FirstWhere(names, IsVER1)
        ELSE IF FirstWhere(names, NotBacklog) # 0 THEN FirstWhere(names, NotBacklog)
        ELSE 1

\* generateNextVersion(currentName)
generateNextVersion(currentName) ==
    IF MatchesVER(currentName)
    THEN <<"V", "E", "R">> \o NumberToString(VerOf(currentName) + 1)
    ELSE <<"V", "E", "R", "2">>

\* The workbooks a run starts in: the names of the sheets, in order.
Workbooks == { <<NameVER1, NameBacklog>>, <<NameWhitepaperPlans>> }

HasSheet(names, name) == \E k \in 1..Len(names) : names[k] = name


(* ------------------------------------------------------------------ *)
(* Rows, results and the log                                           *)
(* ------------------------------------------------------------------ *)

\* The value of a property that an object does not have.
Undefined == <<"undefined">>

\* headers.length - 1 as a 1-based position: the rightmost column.
CommentCol(headers) == Len(headers)

\* HasComment without the trim: a comment of white space counts.
HasCommentUntrimmed(row, col) ==
    /\ col \in DOMAIN row
    /\ row[col] # <<>>

\* comment && comment.toString().trim() !== ''
HasComment(row, col) ==
    /\ col \in DOMAIN row
    /\ row[col] # <<>>
    /\ Trim(row[col]) # <<>>

\* The loop that collects the commented rows, from position i on.
RECURSIVE CollectFrom(_, _, _)
CollectFrom(grid, i, acc) ==
    IF i > Len(grid) THEN acc
    ELSE CollectFrom(grid, i + 1,
            IF HasComment(grid[i], CommentCol(grid[1]))
            THEN Append(acc, [rowIndex |-> i,
                              row      |-> grid[i],
                              comment  |-> Trim(grid[i][CommentCol(grid[1])])])
            ELSE acc)

CollectCommented(grid) == CollectFrom(grid, 2, <<>>)

\* CopyUncommentedFrom walking the grid from its last row to row i.
RECURSIVE CopyUncommentedBackwards(_, _, _)
CopyUncommentedBackwards(grid, i, sheet) ==
    IF i > Len(grid) THEN sheet
    ELSE LET below == CopyUncommentedBackwards(grid, i + 1, sheet)
         IN  IF ~HasComment(grid[i], CommentCol(grid[1]))
             THEN Append(below, grid[i])
             ELSE below

\* The loop that copies the rows without a comment, from position i on.
RECURSIVE CopyUncommentedFrom(_, _, _)
CopyUncommentedFrom(grid, i, sheet) ==
    IF i > Len(grid) THEN sheet
    ELSE CopyUncommentedFrom(grid, i + 1,
            IF ~HasComment(grid[i], CommentCol(grid[1]))
            THEN Append(sheet, grid[i])
            ELSE sheet)

RowIndexes(batch) == [k \in 1..Len(batch) |-> batch[k].rowIndex]

\* FindInBatch falling back to the first row of the batch.
FindInBatchOrFirst(batch, rowIndex) ==
    IF \E k \in 1..Len(batch) : batch[k].rowIndex = rowIndex
    THEN CHOOSE k \in 1..Len(batch) : batch[k].rowIndex = rowIndex
    ELSE 1

\* batch.find(b => b.rowIndex === revisedRow.row_index): the position in the
\* batch of the first such row, 0 for undefined.
FindInBatch(batch, rowIndex) ==
    IF \E k \in 1..Len(batch) : batch[k].rowIndex = rowIndex
    THEN CHOOSE k \in 1..Len(batch) :
            /\ batch[k].rowIndex = rowIndex
            /\ \A j \in 1..(k - 1) : batch[j].rowIndex # rowIndex
    ELSE 0

\* headers.map(header => revisedRow[key] !== undefined ? revisedRow[key] : '')
\* with key = header.toString().trim()
BuildNewRow(headers, revisedRow) ==
    [c \in 1..Len(headers) |->
        LET key == Trim(headers[c])
        IN  IF key \in DOMAIN revisedRow.fields /\ revisedRow.fields[key] # Undefined
            THEN revisedRow.fields[key]
            ELSE <<>>]

\* AppendOriginals writing the rows of the batch last row first.
RECURSIVE AppendOriginalsReversed(_, _)
AppendOriginalsReversed(sheet, batch) ==
    IF batch = <<>> THEN sheet
    ELSE AppendOriginalsReversed(Append(sheet, batch[Len(batch)].row),
                                 SubSeq(batch, 1, Len(batch) - 1))

\* for (const item of batch) destSheet.appendRow(item.row)
RECURSIVE AppendOriginals(_, _)
AppendOriginals(sheet, batch) ==
    IF batch = <<>> THEN sheet
    ELSE AppendOriginals(Append(sheet, Head(batch).row), Tail(batch))

\* One row of the Backlog sheet; the time stamp and the message are left out.
LogEntry(type, index, status, detail) ==
    [type |-> type, batchIndex |-> index, status |-> status, detail |-> detail]

\* logToBacklog's rows: e is appended to the Backlog sheet.
LogAppend(entries, e) == Append(entries, e)

\* logToBacklog's sheet: the Backlog sheet is inserted when it is missing.
EnsureBacklog(names) ==
    IF HasSheet(names, NameBacklog) THEN names ELSE Append(names, NameBacklog)

(* ------------------------------------------------------------------ *)
(* The collaborator's answers                                          *)
(* ------------------------------------------------------------------ *)

\* The keys a result row can carry: the header names.
Keys == { Headers[c] : c \in 1..Len(Headers) }

\* What the collaborator writes under a key when it returns it.
RevisedValue(key) == IF key = Headers[CommentCol(Headers)] THEN <<"k">> ELSE <<"z">>

\* The properties of a result row: every header (the strict schema's shape),
\* or row_index alone.
FieldSets == { [key \in Keys |-> IF key \in present THEN RevisedValue(key) ELSE Undefined] :
                 present \in { Keys, {} } }

\* A JSON null among the rows of a response.
NullResult == [isNull |-> TRUE, row_index |-> 0, fields |-> [key \in Keys |-> Undefined]]

\* The rows a response can list for a grid: any sheet row, or one past the grid.
ResultsFor(grid) ==
    { [isNull |-> FALSE, row_index |-> n, fields |-> f] :
        n \in 1..(Len(grid) + 1), f \in FieldSets } \cup { NullResult }

\* An answer lists at most one row more than the batch it answers, which
\* leaves room for a null, for a row the batch did not have and for a second
\* result of one row.
MaxResults(batch) == Len(batch) + 1

\* The HTTP status codes of an answer.
StatusCodes == { 200, 201, 300, 404, 500 }


(* ------------------------------------------------------------------ *)
(* Diff highlighting                                                   *)
(* ------------------------------------------------------------------ *)

\* computeSimpleDiff without its test of equality.
computeSimpleDiffUntested(str1, str2) ==
    << [type |-> "insert", start |-> 0, end |-> Len(str2)] >>

\* computeSimpleDiff(str1, str2): 0-based, end exclusive.
computeSimpleDiff(str1, str2) ==
    IF str1 = str2 THEN <<>>
    ELSE << [type |-> "insert", start |-> 0, end |-> Len(str2)] >>

\* createDiffRichText(original, revised): the text of the rich value and the
\* spans that are set in red, one per segment of type insert.
createDiffRichText(original, revised) ==
    LET IsInsert(segment) == segment.type = "insert"
        inserts == SelectSeq(computeSimpleDiff(original, revised), IsInsert)
    IN  [text |-> revised,
         red  |-> [k \in 1..Len(inserts) |-> <<inserts[k].start, inserts[k].end>>]]

\* text of a cell that may be missing: sourceValues[col]?.toString() || ''
CellText(row, c) == IF c \in DOMAIN row THEN row[c] ELSE <<>>

\* applyDiffHighlighting: the spans set on each cell of the destination row.
applyDiffHighlighting(sourceRow, destRow, colCount) ==
    [c \in 1..colCount |->
        IF CellText(sourceRow, c) # CellText(destRow, c)
        THEN computeSimpleDiff(CellText(sourceRow, c), CellText(destRow, c))
        ELSE <<>>]

NoMarks(row) == [c \in 1..Len(row) |-> <<>>]

(* ------------------------------------------------------------------ *)
(* The run: rewriteAllCommentedRows                                    *)
(* ------------------------------------------------------------------ *)

VARIABLES
    values,          \* the grid of the source sheet (an input)
    batchSize,       \* the size the commented rows are chunked by (an input)
    sheets,          \* the names of the workbook's sheets, in order
    sourceName,      \* the name of the detected source sheet, <<>> before
    destName,        \* the name of the destination sheet, <<>> before
    destTouched,     \* "none", "created" or "cleared"
    dest,            \* the rows of the destination sheet
    marks,           \* per destination row, the spans highlighted in each cell
    log,             \* the rows of the Backlog sheet written by this run
    pc,              \* "start", "loop", "await", "apply", "done", "fatal"
    batches,         \* chunkArray(commentedRows, size)
    batchIndex,      \* the loop variable, 0-based as in the code
    totalProcessed,
    totalSuccess,
    totalFailed,
    calls,           \* the batches sent to the backend, as their row indexes
    cur,             \* <<r>> while the answer's row r is the last one read
    nres,            \* how many rows of the current answer were read
    outcome,         \* per finished batch, "ok" or "failed"
    applied,         \* the results written so far, each with its batch and
                     \*   its place among the written results of the batch
    logFaults,       \* whether each coming write to the Backlog sheet throws;
                     \*   <<>> when none does
    cArray,          \* chunkArray on its own: its array,
    cSize,           \*   its size,
    cI,              \*   its loop variable i,
    cChunks,         \*   its chunks,
    cPc,             \*   "off", "loop" or "returned"
    gHeaders,        \* generateSchema on its own: its headers,
    gSchema,         \*   the schema it returned, <<>> before,
    gPc,             \*   "off", "call", "returned" or "built"
    fn,              \* a function called on its own: its name, "" for none,
    arg,             \*   its arguments,
    ret,             \*   what it returned, <<>> before,
    fPc,             \*   "off", "call" or "returned"
    storage,         \* a call of StorageService.deleteFiles
    rewrite,         \* a call of OpenAIService.rewriteBatch
    usage,           \* the rewrite requests of one user on one day
    breaker          \* a CircuitBreaker and the calls of its execute

vars == << values, batchSize, sheets, sourceName, destName, destTouched, dest,
           marks, log, pc, batches, batchIndex, totalProcessed, totalSuccess,
           totalFailed, calls, cur, nres, outcome, applied, logFaults,
           cArray, cSize, cI, cChunks, cPc, gHeaders, gSchema, gPc,
           fn, arg, ret, fPc, storage, rewrite, usage, breaker >>

inputs == << values, batchSize >>

\* The state of the run.
runVars == << values, batchSize, sheets, sourceName, destName, destTouched, dest,
              marks, log, pc, batches, batchIndex, totalProcessed, totalSuccess,
              totalFailed, calls, cur, nres, outcome, applied, logFaults >>

\* The state of the backend's services.
serviceVars == << storage, rewrite, usage, breaker >>

\* The state of the functions that are called on their own.
asideVars == << cArray, cSize, cI, cChunks, cPc, gHeaders, gSchema, gPc,
               fn, arg, ret, fPc, serviceVars >>

\* The state of a call of one of the other functions.
callVars == << fn, arg, ret, fPc >>

\* No such call is made.
CallsOff ==
    /\ fn = ""
    /\ arg = <<>>
    /\ ret = <<>>
    /\ fPc = "off"

\* No service of the backend is in use.
ServicesOff ==
    /\ storage = [pc |-> "off"]
    /\ rewrite = [pc |-> "off"]
    /\ usage = [pc |-> "off"]
    /\ breaker = [pc |-> "off"]

\* No function is being called on its own.
AsideOff ==
    /\ CallsOff
    /\ ServicesOff
    /\ cArray = <<>>
    /\ cSize = BATCH_SIZE
    /\ cI = 0
    /\ cChunks = <<>>
    /\ cPc = "off"
    /\ gHeaders = <<>>
    /\ gSchema = <<>>
    /\ gPc = "off"

\* The workbook that holds the plans sheet alone is run at the deployed batch
\* size on the grids of at most one data row; the other sizes and the longer
\* grids are run on the workbook that holds VER1.
Init ==
    /\ values \in Grids
    /\ batchSize \in BatchSizes
    /\ sheets \in Workbooks
    /\ sheets = <<NameWhitepaperPlans>> => (batchSize = BATCH_SIZE /\ Len(values) <= 2)
    /\ sourceName = <<>>
    /\ destName = <<>>
    /\ destTouched = "none"
    /\ dest = <<>>
    /\ marks = <<>>
    /\ log = <<>>
    /\ pc = "start"
    /\ batches = <<>>
    /\ batchIndex = 0
    /\ totalProcessed = 0
    /\ totalSuccess = 0
    /\ totalFailed = 0
    /\ calls = <<>>
    /\ cur = <<>>
    /\ nres = 0
    /\ outcome = <<>>
    /\ applied = {}
    /\ logFaults = <<>>
    /\ AsideOff

\* Lines 28-93: from the START entry to the chunking, or to the fatal error
\* of an empty source sheet (lines 55-57, caught at 196-204).
Begin ==
    /\ pc = "start"
    /\ LET names1 == EnsureBacklog(sheets)
           source == names1[detectSourceSheet(names1)]
           next   == generateNextVersion(source)
           exists == HasSheet(names1, next)
           log1   == LogAppend(LogAppend(LogAppend(log,
                        LogEntry("INFO", -1, "START", <<>>)),
                        LogEntry("INFO", -1, "DETECTED", <<>>)),
                        LogEntry("INFO", -1, IF exists THEN "CLEARED" ELSE "CREATED", <<>>))
       IN  /\ sourceName' = source
           /\ destName' = next
           /\ sheets' = IF exists THEN names1 ELSE Append(names1, next)
           /\ destTouched' = IF exists THEN "cleared" ELSE "created"
           /\ IF Len(values) = 0
              THEN /\ log' = LogAppend(log1, LogEntry("ERROR", -1, "FATAL", <<>>))
                   /\ pc' = "fatal"
                   /\ dest' = <<>>
                   /\ marks' = <<>>
                   /\ batches' = <<>>
              ELSE LET headers == values[1]
                       commentedRows == CollectCommented(values)
                   IN  /\ dest' = <<headers>>
                       /\ marks' = <<NoMarks(headers)>>
                       /\ log' = LogAppend(LogAppend(log1,
                                    LogEntry("INFO", -1, "HEADERS", <<Len(headers)>>)),
                                    LogEntry("INFO", -1, "COLLECTED",
                                             <<Len(values) - 1, Len(commentedRows)>>))
                       /\ batches' = chunkArray(commentedRows, batchSize)
                       /\ pc' = "loop"
    /\ UNCHANGED << inputs, asideVars, logFaults, batchIndex, totalProcessed, totalSuccess, totalFailed,
                    calls, cur, nres, outcome, applied >>

\* Lines 98-104 and 284-316: the BATCH_START entry, the payload, the
\* API_REQUEST entry and the request itself.
Dispatch ==
    /\ pc = "loop"
    /\ batchIndex < Len(batches)
    /\ LET batch == batches[batchIndex + 1]
       IN  /\ log' = LogAppend(LogAppend(log,
                        LogEntry("INFO", batchIndex, "BATCH_START", RowIndexes(batch))),
                        LogEntry("API_REQUEST", -1, "SENDING", <<Len(batch), Len(values[1])>>))
           /\ calls' = Append(calls, RowIndexes(batch))
    /\ pc' = "await"
    /\ cur' = <<>>
    /\ nres' = 0
    /\ UNCHANGED << inputs, asideVars, logFaults, sheets, sourceName, destName, destTouched, dest, marks,
                    batches, batchIndex, totalProcessed, totalSuccess, totalFailed,
                    outcome, applied >>

\* CatchBatch rethrowing: the failure of a batch ends the run.
CatchBatchRethrow ==
    /\ log' = LogAppend(LogAppend(log,
                 LogEntry("ERROR", batchIndex, "FAILED", <<>>)),
                 LogEntry("ERROR", -1, "FATAL", <<>>))
    /\ outcome' = Append(outcome, "failed")
    /\ pc' = "fatal"
    /\ UNCHANGED << dest, marks, totalFailed, totalProcessed, batchIndex >>

\* CatchBatch logging its ERROR entry without the index of the batch.
CatchBatchUnindexed ==
    LET batch == batches[batchIndex + 1]
    IN  /\ log' = LogAppend(log, LogEntry("ERROR", -1, "FAILED", <<>>))
        /\ dest' = AppendOriginals(dest, batch)
        /\ marks' = marks \o [k \in 1..Len(batch) |-> NoMarks(batch[k].row)]
        /\ totalFailed' = totalFailed + Len(batch)
        /\ totalProcessed' = totalProcessed + Len(batch)
        /\ batchIndex' = batchIndex + 1
        /\ outcome' = Append(outcome, "failed")
        /\ pc' = "loop"

\* CatchBatch leaving the loop at the failed batch, which is then sent again.
CatchBatchRetry ==
    LET batch == batches[batchIndex + 1]
    IN  /\ log' = LogAppend(log, LogEntry("ERROR", batchIndex, "FAILED", <<>>))
        /\ dest' = AppendOriginals(dest, batch)
        /\ marks' = marks \o [k \in 1..Len(batch) |-> NoMarks(batch[k].row)]
        /\ totalFailed' = totalFailed + Len(batch)
        /\ totalProcessed' = totalProcessed + Len(batch)
        /\ batchIndex' = batchIndex
        /\ outcome' = Append(outcome, "failed")
        /\ pc' = "loop"

\* Lines 136-149: the catch block of a batch, and the loop's increment.
CatchBatch ==
    LET batch == batches[batchIndex + 1]
    IN  /\ log' = LogAppend(log, LogEntry("ERROR", batchIndex, "FAILED", <<>>))
        /\ dest' = AppendOriginals(dest, batch)
        /\ marks' = marks \o [k \in 1..Len(batch) |-> NoMarks(batch[k].row)]
        /\ totalFailed' = totalFailed + Len(batch)
        /\ totalProcessed' = totalProcessed + Len(batch)
        /\ batchIndex' = batchIndex + 1
        /\ outcome' = Append(outcome, "failed")
        /\ pc' = "loop"

\* An answer of the backend: whether the fetch threw, the status code,
\* whether the body parses as JSON, its success flag, and whether it has
\* data.rows and data.metadata.
Answers ==
    [thrown : BOOLEAN, status : StatusCodes, parses : BOOLEAN,
     success : BOOLEAN, shaped : BOOLEAN]

\* Lines 316-333: whether callBackendAPIBatch throws on the answer.
CallThrows(a) ==
    \/ a.thrown
    \/ a.status >= 300
    \/ ~a.parses
    \/ ~a.success
    \/ ~a.shaped

\* The call of line 108 throws: lines 316-328, then the catch block.
ReceiveFailure ==
    /\ pc = "await"
    /\ \E a \in Answers : CallThrows(a)
    /\ CatchBatch
    /\ UNCHANGED << inputs, asideVars, logFaults, sheets, sourceName, destName, destTouched, batches,
                    totalSuccess, calls, cur, nres, applied >>

\* The call of line 108 returns: lines 330-335 and 110-112.
ReceiveSuccess ==
    /\ pc = "await"
    /\ \E a \in Answers : ~CallThrows(a)
    /\ log' = LogAppend(LogAppend(log,
                 LogEntry("API_RESPONSE", -1, "SUCCESS", <<>>)),
                 LogEntry("API_RESPONSE", batchIndex, "SUCCESS", <<>>))
    /\ pc' = "apply"
    /\ UNCHANGED << inputs, asideVars, logFaults, sheets, sourceName, destName, destTouched, dest, marks,
                    batches, batchIndex, totalProcessed, totalSuccess, totalFailed,
                    calls, cur, nres, outcome, applied >>

\* The results of batch k written so far.
WrittenOf(k) == Cardinality({ a \in applied : a.batch = k })

\* Lines 115-132: one turn of the loop over the rows of the answer, for the
\* next row r of the answer.  Reading row_index of a null throws, which ends
\* the batch in the catch block.
ApplyResult(r) ==
    LET batch == batches[batchIndex + 1]
        found == FindInBatch(batch, r.row_index)
        newRow == BuildNewRow(values[1], r)
    IN  IF r.isNull
        THEN /\ CatchBatch
             /\ UNCHANGED << totalSuccess, applied >>
        ELSE /\ IF found = 0
                THEN UNCHANGED << dest, marks, totalSuccess, applied >>
                ELSE /\ dest' = Append(dest, newRow)
                     /\ applied' = applied \cup
                           { [batch |-> batchIndex, at |-> WrittenOf(batchIndex) + 1, result |-> r] }
                     /\ marks' = Append(marks,
                           applyDiffHighlighting(values[batch[found].rowIndex],
                                                 newRow, Len(values[1])))
                     /\ totalSuccess' = totalSuccess + 1
             /\ UNCHANGED << log, totalFailed, totalProcessed, batchIndex, outcome, pc >>

ApplyNext ==
    /\ pc = "apply"
    /\ nres < MaxResults(batches[batchIndex + 1])
    /\ \E r \in ResultsFor(values) :
          /\ ApplyResult(r)
          /\ cur' = IF r.isNull THEN <<>> ELSE <<r>>
          /\ nres' = IF r.isNull THEN 0 ELSE nres + 1
    /\ UNCHANGED << inputs, asideVars, logFaults, sheets, sourceName, destName, destTouched, batches, calls >>

\* Line 134 and the loop's increment: the answer has no further row.
EndBatch ==
    /\ pc = "apply"
    /\ totalProcessed' = totalProcessed + Len(batches[batchIndex + 1])
    /\ batchIndex' = batchIndex + 1
    /\ outcome' = Append(outcome, "ok")
    /\ pc' = "loop"
    /\ cur' = <<>>
    /\ nres' = 0
    /\ UNCHANGED << inputs, asideVars, logFaults, sheets, sourceName, destName, destTouched, dest, marks,
                    log, batches, totalSuccess, totalFailed, calls, applied >>

\* Lines 152-194: the rows without a comment, the clean-up of the new
\* sheet's spare rows and columns, and the COMPLETED entry.
Finish ==
    /\ pc = "loop"
    /\ batchIndex >= Len(batches)
    /\ dest' = CopyUncommentedFrom(values, 2, dest)
    /\ marks' = marks \o [k \in 1..(Len(dest') - Len(dest)) |-> NoMarks(values[1])]
    /\ log' = LogAppend(LogAppend(LogAppend(log,
                 LogEntry("INFO", -1, "CLEANUP", <<>>)),
                 LogEntry("INFO", -1, "CLEANUP", <<>>)),
                 LogEntry("INFO", -1, "COMPLETED",
                          <<totalProcessed, totalSuccess, totalFailed>>))
    /\ pc' = "done"
    /\ UNCHANGED << inputs, asideVars, logFaults, sheets, sourceName, destName, destTouched, batches,
                    batchIndex, totalProcessed, totalSuccess, totalFailed, calls,
                    cur, nres, outcome, applied >>

Next ==
    \/ Begin
    \/ Dispatch
    \/ ReceiveFailure
    \/ ReceiveSuccess
    \/ ApplyNext
    \/ EndBatch
    \/ Finish

Spec == Init /\ [][Next]_vars

TypeOK ==
    /\ pc \in {"start", "loop", "await", "apply", "done", "fatal"}
    /\ Len(marks) = Len(dest)


(* ------------------------------------------------------------------ *)
(* The run when writes to the Backlog sheet can throw                  *)
(* ------------------------------------------------------------------ *)

\* logToBacklog has no try block: an exception of appendRow leaves it.

\* The data rows of the grids of the runs whose log writes can throw.
MaxLogRows == 2

\* The log writes that succeed before the first one that throws.
MaxLogWrites == 16

\* The grids of those runs.
LogGrids ==
    { <<>> } \cup
    { <<Headers>> \o PlanRows(comments) :
        comments \in SeqsUpTo(CommentCells \ { <<Blank>> }, MaxLogRows) }

\* What the coming writes do: some succeed, then one, two or three in a row
\* throw, then all succeed.
FaultQueues ==
    { [k \in 1..n |-> FALSE] \o tail :
        n \in 0..MaxLogWrites,
        tail \in { <<>>, <<TRUE>>, <<TRUE, TRUE>>, <<TRUE, TRUE, TRUE>> } }

\* The Backlog sheet's rows, the coming faults, and whether an exception of
\* logToBacklog is in flight.
LogState(entries, faults) == [log |-> entries, faults |-> faults, threw |-> FALSE]

\* logToBacklog(e) at a point the control reaches only when no exception is
\* in flight.
TryLog(s, e) ==
    IF s.threw THEN s
    ELSE IF s.faults # <<>> /\ Head(s.faults)
         THEN [log |-> s.log, faults |-> Tail(s.faults), threw |-> TRUE]
         ELSE [log    |-> LogAppend(s.log, e),
               faults |-> IF s.faults = <<>> THEN <<>> ELSE Tail(s.faults),
               threw  |-> FALSE]

\* A catch block was entered: the exception is no longer in flight.
Caught(s) == [s EXCEPT !.threw = FALSE]

\* Lines 196-204: the catch block of the run.  When its own log write
\* throws, the exception leaves the function from inside the catch block.
CatchFatal(s) ==
    LET sF == TryLog(Caught(s), LogEntry("ERROR", -1, "FATAL", <<>>))
    IN  /\ log' = sF.log
        /\ logFaults' = sF.faults
        /\ pc' = "fatal"

\* Lines 136-149 entered in log state s: the catch block of a batch, whose
\* first statement is a log write; o is what the batch is remembered as.
CatchBatchFaulty(s, o) ==
    LET batch == batches[batchIndex + 1]
        sE == TryLog(Caught(s), LogEntry("ERROR", batchIndex, "FAILED", <<>>))
    IN  IF sE.threw
        THEN /\ CatchFatal(sE)
             /\ UNCHANGED << dest, marks, totalFailed, totalProcessed, batchIndex, outcome >>
        ELSE /\ log' = sE.log
             /\ logFaults' = sE.faults
             /\ dest' = AppendOriginals(dest, batch)
             /\ marks' = marks \o [k \in 1..Len(batch) |-> NoMarks(batch[k].row)]
             /\ totalFailed' = totalFailed + Len(batch)
             /\ totalProcessed' = totalProcessed + Len(batch)
             /\ batchIndex' = batchIndex + 1
             /\ outcome' = Append(outcome, o)
             /\ pc' = "loop"

InitLog ==
    /\ values \in LogGrids
    /\ batchSize \in { 1, BATCH_SIZE }
    /\ sheets \in Workbooks
    /\ sourceName = <<>>
    /\ destName = <<>>
    /\ destTouched = "none"
    /\ dest = <<>>
    /\ marks = <<>>
    /\ log = <<>>
    /\ pc = "start"
    /\ batches = <<>>
    /\ batchIndex = 0
    /\ totalProcessed = 0
    /\ totalSuccess = 0
    /\ totalFailed = 0
    /\ calls = <<>>
    /\ cur = <<>>
    /\ nres = 0
    /\ outcome = <<>>
    /\ applied = {}
    /\ logFaults \in FaultQueues
    /\ AsideOff

\* Lines 28-93 and 196-204.
BeginFaulty ==
    /\ pc = "start"
    /\ LET names1 == EnsureBacklog(sheets)
           s1     == TryLog(LogState(log, logFaults), LogEntry("INFO", -1, "START", <<>>))
           source == names1[detectSourceSheet(names1)]
           s2     == TryLog(s1, LogEntry("INFO", -1, "DETECTED", <<>>))
           next   == generateNextVersion(source)
           exists == HasSheet(names1, next)
           s3     == TryLog(s2, LogEntry("INFO", -1,
                                         IF exists THEN "CLEARED" ELSE "CREATED", <<>>))
           empty  == Len(values) = 0
           s4     == IF empty THEN s3
                     ELSE TryLog(s3, LogEntry("INFO", -1, "HEADERS", <<Len(values[1])>>))
           s5     == IF empty THEN s3
                     ELSE TryLog(s4, LogEntry("INFO", -1, "COLLECTED",
                                    <<Len(values) - 1, Len(CollectCommented(values))>>))
           threw  == s5.threw \/ empty
       IN  /\ sourceName' = IF s1.threw THEN <<>> ELSE source
           /\ destName' = IF s2.threw THEN <<>> ELSE next
           /\ sheets' = IF ~s2.threw /\ ~exists THEN Append(names1, next) ELSE names1
           /\ destTouched' = IF s2.threw THEN "none"
                             ELSE IF exists THEN "cleared" ELSE "created"
           /\ dest' = IF s3.threw \/ empty THEN <<>> ELSE <<values[1]>>
           /\ marks' = IF s3.threw \/ empty THEN <<>> ELSE <<NoMarks(values[1])>>
           /\ IF threw
              THEN /\ CatchFatal(s5)
                   /\ batches' = <<>>
              ELSE /\ log' = s5.log
                   /\ logFaults' = s5.faults
                   /\ batches' = chunkArray(CollectCommented(values), batchSize)
                   /\ pc' = "loop"
    /\ UNCHANGED << inputs, asideVars, batchIndex, totalProcessed, totalSuccess,
                    totalFailed, calls, cur, nres, outcome, applied >>

\* Lines 98-104 and 284-316.  The BATCH_START write is outside the try block
\* of the batch, the API_REQUEST write inside it and before the request.
DispatchFaulty ==
    /\ pc = "loop"
    /\ batchIndex < Len(batches)
    /\ LET batch == batches[batchIndex + 1]
           s1 == TryLog(LogState(log, logFaults),
                        LogEntry("INFO", batchIndex, "BATCH_START", RowIndexes(batch)))
           s2 == TryLog(s1, LogEntry("API_REQUEST", -1, "SENDING",
                                     <<Len(batch), Len(values[1])>>))
       IN  IF s1.threw
           THEN /\ CatchFatal(s1)
                /\ UNCHANGED << dest, marks, totalFailed, totalProcessed, batchIndex,
                                outcome, calls >>
           ELSE IF s2.threw
                THEN /\ CatchBatchFaulty(s2, "unsent")
                     /\ UNCHANGED calls
                ELSE /\ log' = s2.log
                     /\ logFaults' = s2.faults
                     /\ calls' = Append(calls, RowIndexes(batch))
                     /\ pc' = "await"
                     /\ UNCHANGED << dest, marks, totalFailed, totalProcessed,
                                     batchIndex, outcome >>
    /\ cur' = <<>>
    /\ nres' = 0
    /\ UNCHANGED << inputs, asideVars, sheets, sourceName, destName, destTouched,
                    batches, totalSuccess, applied >>

\* The call of line 108 throws: lines 316-328, then the catch block.
ReceiveFailureFaulty ==
    /\ pc = "await"
    /\ \E a \in Answers : CallThrows(a)
    /\ CatchBatchFaulty(LogState(log, logFaults), "failed")
    /\ UNCHANGED << inputs, asideVars, sheets, sourceName, destName, destTouched,
                    batches, totalSuccess, calls, cur, nres, applied >>

\* The answer is a success: lines 330-335 and 110-112, whose two log writes
\* are inside the try block of the batch.
ReceiveSuccessFaulty ==
    /\ pc = "await"
    /\ \E a \in Answers : ~CallThrows(a)
    /\ LET s1 == TryLog(LogState(log, logFaults),
                        LogEntry("API_RESPONSE", -1, "SUCCESS", <<>>))
           s2 == TryLog(s1, LogEntry("API_RESPONSE", batchIndex, "SUCCESS", <<>>))
       IN  IF s2.threw
           THEN CatchBatchFaulty(s2, "dropped")
           ELSE /\ log' = s2.log
                /\ logFaults' = s2.faults
                /\ pc' = "apply"
                /\ UNCHANGED << dest, marks, totalFailed, totalProcessed, batchIndex,
                                outcome >>
    /\ UNCHANGED << inputs, asideVars, sheets, sourceName, destName, destTouched,
                    batches, totalSuccess, calls, cur, nres, applied >>

\* Lines 115-132, one turn.
ApplyNextFaulty ==
    /\ pc = "apply"
    /\ nres < MaxResults(batches[batchIndex + 1])
    /\ \E r \in ResultsFor(values) :
          /\ IF r.isNull
             THEN /\ CatchBatchFaulty(LogState(log, logFaults), "failed")
                  /\ UNCHANGED << totalSuccess, applied >>
             ELSE /\ ApplyResult(r)
                  /\ UNCHANGED logFaults
          /\ cur' = IF r.isNull THEN <<>> ELSE <<r>>
          /\ nres' = IF r.isNull THEN 0 ELSE nres + 1
    /\ UNCHANGED << inputs, asideVars, sheets, sourceName, destName, destTouched,
                    batches, calls >>

\* Lines 152-204.
FinishFaulty ==
    /\ pc = "loop"
    /\ batchIndex >= Len(batches)
    /\ dest' = CopyUncommentedFrom(values, 2, dest)
    /\ marks' = marks \o [k \in 1..(Len(dest') - Len(dest)) |-> NoMarks(values[1])]
    /\ LET s1 == TryLog(LogState(log, logFaults), LogEntry("INFO", -1, "CLEANUP", <<>>))
           s2 == TryLog(s1, LogEntry("INFO", -1, "CLEANUP", <<>>))
           s3 == TryLog(s2, LogEntry("INFO", -1, "COMPLETED",
                                     <<totalProcessed, totalSuccess, totalFailed>>))
       IN  IF s3.threw
           THEN CatchFatal(s3)
           ELSE /\ log' = s3.log
                /\ logFaults' = s3.faults
                /\ pc' = "done"
    /\ UNCHANGED << inputs, asideVars, sheets, sourceName, destName, destTouched,
                    batches, batchIndex, totalProcessed, totalSuccess, totalFailed,
                    calls, cur, nres, outcome, applied >>

NextLog ==
    \/ BeginFaulty
    \/ DispatchFaulty
    \/ ReceiveFailureFaulty
    \/ ReceiveSuccessFaulty
    \/ ApplyNextFaulty
    \/ EndBatch
    \/ FinishFaulty

SpecLog == InitLog /\ [][NextLog]_vars

(* ------------------------------------------------------------------ *)
(* chunkArray and generateSchema, called on their own                  *)
(* ------------------------------------------------------------------ *)

RowIndexKey == <<"r", "o", "w", "_", "i", "n", "d", "e", "x">>

\* generateSchema(headers): the schema it returns.  Its try block has no
\* statement that throws, so it returns for every list of headers.
generateSchema(headers) ==
    LET names == { headers[c] : c \in 1..Len(headers) }
        properties == [key \in {RowIndexKey} \cup names |->
                          IF key \in names THEN [type |-> "string"]
                          ELSE [type |-> "integer"]]
        requiredFields == <<RowIndexKey>> \o headers
    IN  [type |-> "object",
         required |-> <<"rows">>,
         additionalProperties |-> FALSE,
         properties |->
            [rows |-> [type |-> "array",
                       items |-> [type |-> "object",
                                  required |-> requiredFields,
                                  additionalProperties |-> FALSE,
                                  properties |-> properties]]]]

\* buildJsonSchema(headers) of the script served by the generate route: the
\* keys are the trimmed headers, the items require row_index only and carry
\* no additionalProperties of their own.
buildJsonSchema(headers) ==
    LET names == { Trim(headers[c]) : c \in 1..Len(headers) }
        properties == [key \in {RowIndexKey} \cup names |->
                          IF key \in names THEN [type |-> "string"]
                          ELSE [type |-> "integer"]]
    IN  [type |-> "object",
         required |-> <<"rows">>,
         properties |->
            [rows |-> [type |-> "array",
                       items |-> [type |-> "object",
                                  required |-> <<RowIndexKey>>,
                                  properties |-> properties]]],
         additionalProperties |-> FALSE]

\* The arrays chunked on their own: n commented rows, each named by its
\* sheet position when every data row has a comment.
ChunkArrays == { [k \in 1..n |-> k + 1] : n \in 0..MaxItems }

\* The sizes chunked by: up to one more than the deployed size, and the
\* sizes a caller must not pass.
ChunkSizes == (-1)..(BATCH_SIZE + 1)

\* The header lists schemas are generated for.
HeaderLists ==
    SeqsUpTo({ Headers[1], Headers[2], RowIndexKey, <<"C", Blank>> }, MaxHeaders)

\* The run is not started.
RunOff ==
    /\ values = <<>>
    /\ batchSize = BATCH_SIZE
    /\ sheets = <<>>
    /\ sourceName = <<>>
    /\ destName = <<>>
    /\ destTouched = "none"
    /\ dest = <<>>
    /\ marks = <<>>
    /\ log = <<>>
    /\ pc = "off"
    /\ batches = <<>>
    /\ batchIndex = 0
    /\ totalProcessed = 0
    /\ totalSuccess = 0
    /\ totalFailed = 0
    /\ calls = <<>>
    /\ cur = <<>>
    /\ nres = 0
    /\ outcome = <<>>
    /\ applied = {}
    /\ logFaults = <<>>

InitAside ==
    /\ RunOff
    /\ CallsOff
    /\ ServicesOff
    /\ cArray \in ChunkArrays
    /\ cSize \in ChunkSizes
    /\ cI = 0
    /\ cChunks = <<>>
    /\ cPc = "loop"
    /\ gHeaders \in HeaderLists
    /\ gSchema = <<>>
    /\ gPc = "call"

\* Lines 410-412 of chunkArray: one turn of its loop.
ChunkStep ==
    /\ cPc = "loop"
    /\ cI < Len(cArray)
    /\ Len(cChunks) < MaxChunkSteps
    /\ cChunks' = Append(cChunks, Slice(cArray, cI, cI + cSize))
    /\ cI' = cI + cSize
    /\ UNCHANGED << runVars, serviceVars, callVars, cArray, cSize, cPc, gHeaders, gSchema, gPc >>

\* Lines 410 and 413 of chunkArray: the loop ends and the chunks are returned.
ChunkReturn ==
    /\ cPc = "loop"
    /\ ~(cI < Len(cArray))
    /\ cPc' = "returned"
    /\ UNCHANGED << runVars, serviceVars, callVars, cArray, cSize, cI, cChunks, gHeaders, gSchema, gPc >>

\* generateSchema, from its call to its return.
GenerateSchema ==
    /\ gPc = "call"
    /\ gSchema' = generateSchema(gHeaders)
    /\ gPc' = "returned"
    /\ UNCHANGED << runVars, serviceVars, callVars, cArray, cSize, cI, cChunks, cPc, gHeaders >>

\* buildJsonSchema, from its call to its return.
BuildJsonSchema ==
    /\ gPc = "call"
    /\ gSchema' = buildJsonSchema(gHeaders)
    /\ gPc' = "built"
    /\ UNCHANGED << runVars, serviceVars, callVars, cArray, cSize, cI, cChunks, cPc, gHeaders >>

NextAside ==
    \/ ChunkStep
    \/ ChunkReturn
    \/ GenerateSchema
    \/ BuildJsonSchema

SpecAside == InitAside /\ [][NextAside]_vars

\* The loop of chunkArray and its recursive rendering agree.
ChunkRenderingsAgree ==
    (cPc = "returned" /\ cSize >= 1) => cChunks = chunkArray(cArray, cSize)

(* ------------------------------------------------------------------ *)
(* The other functions, called on their own                            *)
(* ------------------------------------------------------------------ *)

\* The sheets of the workbooks that sources are detected in.
MaxSheets == 3

NameVER0 == <<"V", "E", "R", "0">>

NameVER2 == <<"V", "E", "R", "2">>

NameVER9 == <<"V", "E", "R", "9">>

NameVER10 == <<"V", "E", "R", "1", "0">>

NameVER02 == <<"V", "E", "R", "0", "2">>

NameLowerVer3 == <<"v", "e", "r", "3">>

NameVER == <<"V", "E", "R">>

NameVER1a == <<"V", "E", "R", "1", "a">>

NameSheet1 == <<"S", "h", "e", "e", "t", "1">>

\* The names a sheet can have.
SheetNames ==
    { NameVER0, NameVER1, NameVER2, NameVER9, NameVER10, NameVER02, NameLowerVer3,
      NameVER, NameVER1a, NameSheet1, NameWhitepaperPlans, NameBacklog }

\* The workbooks: one to MaxSheets sheets under different names.
AllWorkbooks ==
    { w \in SeqsUpTo(SheetNames, MaxSheets) :
        /\ Len(w) >= 1
        /\ \A i, j \in 1..Len(w) : i # j => w[i] # w[j] }

\* The calls that are made: the function and its arguments, which are the
\* sheet names of a workbook, one sheet name, or an old and a new text.
CallsOf(f, args) == { [fn |-> f, arg |-> a] : a \in args }

\* The length of the texts that are compared.
MaxTextLen == 3

TextABC == <<"a", "b", "c">>

TextABXC == <<"a", "b", "X", "c">>

\* The texts that are compared.
Texts == SeqsUpTo({ "a", "b", "X" }, MaxTextLen)

\* The pairs of an old and a new text.
TextPairs == (Texts \X Texts) \cup { <<TextABC, TextABXC>> }

Calls ==
    CallsOf("detectSourceSheet", AllWorkbooks)
    \cup CallsOf("generateNextVersion", { <<n>> : n \in SheetNames })
    \cup CallsOf("computeSimpleDiff", TextPairs)
    \cup CallsOf("createDiffRichText", TextPairs)

InitCalls ==
    /\ RunOff
    /\ ServicesOff
    /\ cArray = <<>>
    /\ cSize = BATCH_SIZE
    /\ cI = 0
    /\ cChunks = <<>>
    /\ cPc = "off"
    /\ gHeaders = <<>>
    /\ gSchema = <<>>
    /\ gPc = "off"
    /\ \E c \in Calls : fn = c.fn /\ arg = c.arg
    /\ ret = <<>>
    /\ fPc = "call"

\* What is left alone by a call of a function on its own.
CallFrame ==
    UNCHANGED << runVars, serviceVars, cArray, cSize, cI, cChunks, cPc, gHeaders, gSchema, gPc,
                 fn, arg >>

\* detectSourceSheet, from its call to its return: the name of the sheet.
CallDetectSourceSheet ==
    /\ fPc = "call"
    /\ fn = "detectSourceSheet"
    /\ ret' = arg[detectSourceSheet(arg)]
    /\ fPc' = "returned"
    /\ CallFrame

\* generateNextVersion, from its call to its return.
CallGenerateNextVersion ==
    /\ fPc = "call"
    /\ fn = "generateNextVersion"
    /\ ret' = generateNextVersion(arg[1])
    /\ fPc' = "returned"
    /\ CallFrame

\* computeSimpleDiff, from its call to its return.
CallComputeSimpleDiff ==
    /\ fPc = "call"
    /\ fn = "computeSimpleDiff"
    /\ ret' = computeSimpleDiff(arg[1], arg[2])
    /\ fPc' = "returned"
    /\ CallFrame

\* createDiffRichText, from its call to its return.
CallCreateDiffRichText ==
    /\ fPc = "call"
    /\ fn = "createDiffRichText"
    /\ ret' = createDiffRichText(arg[1], arg[2])
    /\ fPc' = "returned"
    /\ CallFrame

NextCalls ==
    \/ CallDetectSourceSheet
    \/ CallGenerateNextVersion
    \/ CallComputeSimpleDiff
    \/ CallCreateDiffRichText

SpecCalls == InitCalls /\ [][NextCalls]_vars

(* ------------------------------------------------------------------ *)
(* Vocabulary of the properties                                        *)
(* ------------------------------------------------------------------ *)

\* A string that is empty once trimmed: nothing but white space.
IsBlankString(s) == \A k \in 1..Len(s) : s[k] = Blank

\* The comment cell of the source row at position i.
CommentCellOf(i) == values[i][Len(values[1])]

\* The positions of the data rows of the source grid.
DataRowPositions == 2..Len(values)

\* Some row of the output grid below the header equals row.
InDest(row) == \E p \in 2..Len(dest) : dest[p] = row

RECURSIVE Flatten(_)
Flatten(seqs) == IF seqs = <<>> THEN <<>> ELSE Head(seqs) \o Flatten(Tail(seqs))

\* The run has ended, with its completion entry or in the fatal-error path.
Terminated == pc \in {"done", "fatal"}

\* A result that carries every header.
IsFull(r) == \A key \in Keys : r.fields[key] # Undefined

C2_UnansweredRowWrittenThrough ==
    \A k \in 1..Len(outcome) :
       outcome[k] = "ok" =>
          \A j \in 1..Len(batches[k]) :
             (~\E a \in applied :
                  a.batch = k - 1 /\ a.result.row_index = batches[k][j].rowIndex)
             => InDest(values[batches[k][j].rowIndex])

CeilDiv(n, b) == (n + b - 1) \div b

\* C4: for every list of N commented rows and every batch size B >= 1,
\* chunkArray returns ceil(N / B) batches, each but the last of B rows, the
\* last of 1 to B rows, and the batches concatenated in order are the
\* original list, so that every row is in exactly one batch.
C4_ChunksPartitionRows ==
    (cPc = "returned" /\ cSize >= 1) =>
       /\ Len(cChunks) = CeilDiv(Len(cArray), cSize)
       /\ \A k \in 1..(Len(cChunks) - 1) : Len(cChunks[k]) = cSize
       /\ Len(cChunks) >= 1 => Len(cChunks[Len(cChunks)]) \in 1..cSize
       /\ Flatten(cChunks) = cArray
       /\ \A i \in 1..Len(cArray) :
             Cardinality({ <<k, j>> \in (1..Len(cChunks)) \X (1..Len(cArray)) :
                             j <= Len(cChunks[k]) /\ cChunks[k][j] = cArray[i] }) = 1

\* Seven rows chunked by three: two batches of three and a last one of one.
C4_Witness ==
    /\ cPc = "returned"
    /\ Len(cArray) = 7
    /\ cSize = 3
    /\ Len(cChunks) = 3
    /\ Len(cChunks[3]) = 1

\* C5 (as claimed): the row written for a result that matches a commented
\* row holds, in every column but the comment's, the returned value when the
\* result has one and the source value otherwise, and in the comment column
\* the source's comment.
C5_RevisedRowMergesOriginal ==
    ( /\ pc = "apply"
      /\ cur # <<>>
      /\ \E j \in 1..Len(batches[batchIndex + 1]) :
            batches[batchIndex + 1][j].rowIndex = cur[1].row_index )
    => LET r == cur[1]
           original == values[r.row_index]
           written == dest[Len(dest)]
           headers == values[1]
       IN  \A c \in 1..Len(headers) :
              written[c] =
                 IF c # Len(headers) /\ r.fields[headers[c]] # Undefined
                 THEN r.fields[headers[c]]
                 ELSE original[c]


\* The source rows whose comment is empty once trimmed, in source order.
UncommentedRows ==
    LET NoComment(row) == IsBlankString(row[Len(values[1])])
    IN  SelectSeq(SubSeq(values, 2, Len(values)), NoComment)

\* C6: the rows collected for revision are exactly the data rows whose last
\* cell is not empty once trimmed, in source order, each with its own sheet
\* position and its own cells; and once the run is done the rows copied as
\* uncommented are as many as the data rows that were not collected, so a
\* data row is handled as commented or as uncommented and never as both.
C6_CollectsExactlyCommentedRows ==
    pc \in {"loop", "await", "apply", "done"} =>
       LET collected == Flatten(batches)
       IN  /\ \A k \in 1..Len(collected) :
                 /\ collected[k].rowIndex \in DataRowPositions
                 /\ collected[k].row = values[collected[k].rowIndex]
                 /\ ~IsBlankString(CommentCellOf(collected[k].rowIndex))
           /\ \A k \in 1..(Len(collected) - 1) :
                 collected[k].rowIndex < collected[k + 1].rowIndex
           /\ \A i \in DataRowPositions :
                 ~IsBlankString(CommentCellOf(i)) =>
                    \E k \in 1..Len(collected) : collected[k].rowIndex = i
           /\ pc = "done" =>
                 Len(dest) - 1 - totalSuccess - totalFailed
                    = (Len(values) - 1) - Len(collected)

\* A grid whose first data row has a comment of white space only, whose
\* second has a comment and whose third has none: the second alone is
\* collected.
C6_Witness ==
    /\ pc = "done"
    /\ Len(values) = 4
    /\ CommentCellOf(2) = <<Blank>>
    /\ CommentCellOf(3) = <<"c">>
    /\ CommentCellOf(4) = <<>>
    /\ Len(Flatten(batches)) = 1
    /\ Flatten(batches)[1].rowIndex = 3

\* C7: once the run is done, the output rows that are uncommented source
\* rows are exactly the uncommented source rows, each once, cell for cell,
\* in source order, whatever the outcomes of the batches were.
C7_UncommentedRowsCopied ==
    pc = "done" =>
       LET IsUncommentedSource(row) ==
               \E k \in 1..Len(UncommentedRows) : UncommentedRows[k] = row
       IN  SelectSeq(Tail(dest), IsUncommentedSource) = UncommentedRows

\* Two uncommented rows, one of them with a comment of white space only,
\* around a commented row whose batch failed.
C7_Witness ==
    /\ pc = "done"
    /\ Len(UncommentedRows) = 2
    /\ \E i \in DataRowPositions : CommentCellOf(i) = <<Blank>>
    /\ outcome = <<"failed">>
    /\ CommentCellOf(3) = <<"c">>

\* The source grid has data rows and none of them has a comment.
NoCommentedRow ==
    /\ Len(values) >= 2
    /\ \A i \in DataRowPositions : IsBlankString(CommentCellOf(i))

C9_ShortGridLeavesNoOutput ==
    Len(values) < 2 =>
       /\ pc \in {"start", "fatal"}
       /\ destTouched = "none"
       /\ dest = <<>>
       /\ calls = <<>>


\* C10 (as claimed): chunking by a size of 0 or less cuts no batch and does
\* not return, and generating the schema of an empty header list does not
\* return a schema: both end in an invalid-input error instead.
C10_InvalidInputRejected ==
    /\ cSize <= 0 => (cChunks = <<>> /\ cPc # "returned")
    /\ gHeaders = <<>> => (gSchema = <<>> /\ gPc # "returned")

\* With a size of 0 or less, the loop of chunkArray over an array that is
\* not empty is still running after MaxChunkSteps turns.
ChunkLoopStillRunning ==
    /\ cPc = "loop"
    /\ cSize <= 0
    /\ Len(cChunks) = MaxChunkSteps
    /\ cI < Len(cArray)


\* The last entry of the log is the completion entry.
CompletionLogged ==
    /\ log # <<>>
    /\ log[Len(log)].type = "INFO"
    /\ log[Len(log)].status = "COMPLETED"

\* Every data row of the source grid has its row in the output grid: the
\* rows written for the results of some source row, revised or not, together
\* with the rows copied as they were, are one per data row.
OutputComplete ==
    /\ Len(dest) = Len(values)
    /\ \A i \in DataRowPositions :
          \/ InDest(values[i])
          \/ \E a \in applied : a.result.row_index = i

\* C11 (as claimed): on a grid with a header and at least one data row,
\* whatever the collaborator answers, the run never enters the fatal-error
\* path, and it ends with the completion entry logged and an output grid that
\* is complete.
C11_RunAlwaysCompletes ==
    Len(values) >= 2 =>
       /\ pc # "fatal"
       /\ ~Terminated => ENABLED Next
       /\ pc = "done" => (CompletionLogged /\ OutputComplete)

\* The part of C11 that the run has: it never enters the fatal-error path,
\* never stops before its end, and ends with the completion entry logged.
RunEndsWithCompletionEntry ==
    Len(values) >= 2 =>
       /\ pc # "fatal"
       /\ ~Terminated => ENABLED Next
       /\ pc = "done" => CompletionLogged

\* The run under a scheduler that lets it take its next step.
FairSpec == Spec /\ WF_vars(Next)

\* Under FairSpec every run ends.
RunTerminates == <>Terminated


\* C12 (as claimed): when a write to the Backlog sheet throws, the run still
\* does not enter the fatal-error path, no batch that the collaborator
\* answered with success ends in the catch block of the batch, no batch goes
\* unsent, and every finished run has logged all the batches it has.
C12_LogFailureNeverPropagates ==
    /\ Len(values) >= 2 => pc # "fatal"
    /\ \A k \in 1..Len(outcome) : outcome[k] \in { "ok", "failed" }
    /\ pc = "done" => Len(calls) = Len(batches)


\* The positions in the log of the entries of a type for a batch index.
EntriesOf(type, index) ==
    { p \in 1..Len(log) : log[p].type = type /\ log[p].batchIndex = index }

\* C13: for every batch of the run, the log has exactly one ERROR entry with
\* the index of the batch once the batch has ended in failure (the call
\* threw, or its answer could not be read), and no ERROR entry with that
\* index while the batch is not finished or when it has succeeded.
C13_OneErrorEntryPerFailedBatch ==
    \A k \in 1..Len(batches) :
       Cardinality(EntriesOf("ERROR", k - 1)) =
          IF k <= Len(outcome) /\ outcome[k] = "failed" THEN 1 ELSE 0

\* Three batches of which the second alone failed: one ERROR entry, for
\* batch index 1.
C13_Witness ==
    /\ pc = "done"
    /\ outcome = <<"ok", "failed", "ok">>
    /\ Cardinality(EntriesOf("ERROR", 1)) = 1
    /\ Cardinality(EntriesOf("ERROR", 0)) = 0
    /\ Cardinality(EntriesOf("ERROR", 2)) = 0


\* C14 (as claimed): for every batch that was dispatched the log has exactly
\* one API_REQUEST entry with the index of the batch, that entry carries the
\* row indices of the batch and was there when the collaborator was called;
\* and for every batch that succeeded it has exactly one API_RESPONSE entry
\* with the index of the batch, below that API_REQUEST entry.
C14_RequestAndResponseLoggedPerBatch ==
    /\ \A k \in 1..Len(calls) :
          /\ Cardinality(EntriesOf("API_REQUEST", k - 1)) = 1
          /\ \A p \in EntriesOf("API_REQUEST", k - 1) : log[p].detail = calls[k]
    /\ \A k \in 1..Len(outcome) :
          outcome[k] = "ok" =>
             /\ Cardinality(EntriesOf("API_RESPONSE", k - 1)) = 1
             /\ \A q \in EntriesOf("API_RESPONSE", k - 1) :
                   \E p \in EntriesOf("API_REQUEST", k - 1) : p < q

\* What the log does have for each batch: one BATCH_START entry with the
\* index and the row indices of the batch, then one API_REQUEST entry with
\* index -1 and the sizes only, both before the call; and for a batch that
\* succeeded one API_RESPONSE entry with the index of the batch, after them.
RequestLoggedWithoutIndex ==
    /\ \A k \in 1..Len(calls) :
          /\ Cardinality(EntriesOf("INFO", k - 1)) = 1
          /\ \A p \in EntriesOf("INFO", k - 1) :
                /\ log[p].status = "BATCH_START"
                /\ log[p].detail = calls[k]
                /\ log[p + 1].type = "API_REQUEST"
                /\ log[p + 1].batchIndex = -1
                /\ log[p + 1].detail = <<Len(calls[k]), Len(values[1])>>
          /\ EntriesOf("API_REQUEST", k - 1) = {}
    /\ Cardinality(EntriesOf("API_REQUEST", -1)) = Len(calls)
    /\ \A k \in 1..Len(outcome) :
          outcome[k] = "ok" =>
             /\ Cardinality(EntriesOf("API_RESPONSE", k - 1)) = 1
             /\ \A q \in EntriesOf("API_RESPONSE", k - 1) :
                   \A p \in EntriesOf("INFO", k - 1) : p + 1 < q


\* The counts of the completion entry: processed, revised, fallback.
CompletionCounts == log[Len(log)].detail

\* The rows of the output grid written for commented rows: those below the
\* header that the copy of the uncommented rows did not add.
RowsWrittenForCommented == Len(dest) - 1 - Len(UncommentedRows)

\* C15 (as claimed): in the completion entry the processed count is the
\* number of commented rows, the revised and the fallback counts together
\* are the rows written for commented rows, and processed = revised +
\* fallback.
C15_CompletionCountsAddUp ==
    (pc = "done" /\ CompletionLogged) =>
       /\ CompletionCounts[1] = Len(Flatten(batches))
       /\ CompletionCounts[2] + CompletionCounts[3] = RowsWrittenForCommented
       /\ CompletionCounts[1] = CompletionCounts[2] + CompletionCounts[3]

\* What the counts do satisfy: processed is the number of commented rows,
\* revised is the number of rows appended from results, fallback is the
\* number of rows appended by the catch blocks.
CountsFollowWrites ==
    (pc = "done" /\ CompletionLogged) =>
       /\ CompletionCounts = <<totalProcessed, totalSuccess, totalFailed>>
       /\ totalProcessed = Len(Flatten(batches))
       /\ totalSuccess + totalFailed = RowsWrittenForCommented
       /\ totalFailed =
             Len(Flatten([k \in 1..Len(outcome) |->
                            IF outcome[k] = "failed" THEN batches[k] ELSE <<>>]))


\* "VER" followed by one or more digits.
IsVersionName(name) ==
    /\ Len(name) >= 4
    /\ SubSeq(name, 1, 3) = NameVER
    /\ \A k \in 4..Len(name) : IsDigit(name[k])

\* The number written by the digits after "VER".
SuffixOf(name) == ParseInt(SubSeq(name, 4, Len(name)))

\* The first name of a workbook that is in a set of names.
FirstIn(w, S) == w[CHOOSE k \in 1..Len(w) : w[k] \in S /\ \A j \in 1..(k - 1) : w[j] \notin S]

\* The sheets that the claimed order allows as the source of a workbook.
ClaimedSources(w) ==
    LET names == { w[k] : k \in 1..Len(w) }
        versions == { n \in names : IsVersionName(n) }
    IN  IF versions # {}
        THEN { n \in versions : \A m \in versions : SuffixOf(m) <= SuffixOf(n) }
        ELSE IF NameWhitepaperPlans \in names THEN { NameWhitepaperPlans }
        ELSE IF NameVER1 \in names THEN { NameVER1 }
        ELSE IF names \ { NameBacklog } # {} THEN { FirstIn(w, names \ { NameBacklog }) }
        ELSE { w[1] }

\* C16 (as claimed): the source sheet is the sheet named VER and digits of
\* the highest number whenever there is one, else the default plans sheet,
\* else the sheet VER1, else the first sheet that is not the log sheet, else
\* the first sheet.
C16_SourceResolutionOrder ==
    (fn = "detectSourceSheet" /\ fPc = "returned") => ret \in ClaimedSources(arg)


\* The detected sheet is the claimed one on every workbook that has no
\* sheet named VER and zeros only, and none named in lower case.
ResolutionOrderElsewhere ==
    ( /\ fn = "detectSourceSheet"
      /\ fPc = "returned"
      /\ \A k \in 1..Len(arg) : arg[k] \notin { NameVER0, NameLowerVer3 } )
    => ret \in ClaimedSources(arg)

\* C17 (as claimed): the next version name is "VER" and the digits of n + 1
\* when the current name is "VER" and the digits of n, and "VER2" for every
\* other current name.
C17_NextVersionName ==
    (fn = "generateNextVersion" /\ fPc = "returned") =>
       ret = IF IsVersionName(arg[1])
             THEN NameVER \o NumberToString(SuffixOf(arg[1]) + 1)
             ELSE NameVER2

\* The claimed name is returned for every current name that is not "ver" and
\* digits in another case than "VER".
NextVersionNameElsewhere ==
    (fn = "generateNextVersion" /\ fPc = "returned" /\ arg[1] # NameLowerVer3) =>
       ret = IF IsVersionName(arg[1])
             THEN NameVER \o NumberToString(SuffixOf(arg[1]) + 1)
             ELSE NameVER2


\* The length of a longest common subsequence of two texts.
RECURSIVE LCSLen(_, _)
LCSLen(x, y) ==
    IF x = <<>> \/ y = <<>> THEN 0
    ELSE IF Head(x) = Head(y) THEN 1 + LCSLen(Tail(x), Tail(y))
    ELSE Max(LCSLen(Tail(x), y), LCSLen(x, Tail(y)))

\* x is a subsequence of y.
RECURSIVE IsSubsequence(_, _)
IsSubsequence(x, y) ==
    IF x = <<>> THEN TRUE
    ELSE IF y = <<>> THEN FALSE
    ELSE IF Head(x) = Head(y) THEN IsSubsequence(Tail(x), Tail(y))
    ELSE IsSubsequence(x, Tail(y))

\* The 0-based positions covered by spans.
Covered(spans) ==
    { p \in Nat : \E k \in 1..Len(spans) : spans[k].start <= p /\ p < spans[k].end }

\* The characters of a text at the positions that spans do not cover.
RECURSIVE KeptFrom(_, _, _)
KeptFrom(text, spans, p) ==
    IF p >= Len(text) THEN <<>>
    ELSE (IF \E k \in 1..Len(spans) : spans[k].start <= p /\ p < spans[k].end
          THEN <<>> ELSE <<text[p + 1]>>) \o KeptFrom(text, spans, p + 1)

\* The spans are the maximal runs of the positions they cover: none is
\* empty, and each ends before the next begins.
Coalesced(spans, text) ==
    /\ \A k \in 1..Len(spans) :
          0 <= spans[k].start /\ spans[k].start < spans[k].end /\ spans[k].end <= Len(text)
    /\ \A k \in 1..(Len(spans) - 1) : spans[k].end < spans[k + 1].start

\* A call of the diff has returned.
DiffReturned == fn = "computeSimpleDiff" /\ fPc = "returned"

\* C18 (as claimed): the characters of the new text outside the returned
\* spans are, in order, a longest common subsequence of the old and the new
\* text, every maximal run of inserted positions is one span, and the diff of
\* "abc" against "abXc" is the one span [2, 3).
C18_DiffIsLongestCommonSubsequence ==
    DiffReturned =>
       LET kept == KeptFrom(arg[2], ret, 0)
       IN  /\ IsSubsequence(kept, arg[1])
           /\ Len(kept) = LCSLen(arg[1], arg[2])
           /\ Coalesced(ret, arg[2])
           /\ (arg = <<TextABC, TextABXC>>) =>
                 ret = << [type |-> "insert", start |-> 2, end |-> 3] >>


\* C19: for every text a, computeSimpleDiff(a, a) returns no span, and
\* createDiffRichText(a, a) sets none in red and keeps the text.
C19_DiffOfEqualTextsIsEmpty ==
    /\ (DiffReturned /\ arg[1] = arg[2]) => ret = <<>>
    /\ (fn = "createDiffRichText" /\ fPc = "returned" /\ arg[1] = arg[2]) =>
          (ret.red = <<>> /\ ret.text = arg[1])

\* The diff of "abX" against itself has returned.
C19_Witness ==
    /\ DiffReturned
    /\ arg = << <<"a", "b", "X">>, <<"a", "b", "X">> >>
    /\ ret = <<>>

\* C20 (as claimed): the diff of the empty text against a text that is not
\* empty is the one span from 0 to the length of the text, and the diff of
\* any text against the empty text is the empty list.
C20_DiffWithEmptyText ==
    /\ (DiffReturned /\ arg[1] = <<>> /\ arg[2] # <<>>) =>
          ret = << [type |-> "insert", start |-> 0, end |-> Len(arg[2])] >>
    /\ (DiffReturned /\ arg[2] = <<>>) => ret = <<>>

\* The half of C20 that holds: the empty text against a text that is not
\* empty gives the one span over the whole text.
DiffFromEmptyText ==
    (DiffReturned /\ arg[1] = <<>> /\ arg[2] # <<>>) =>
       ret = << [type |-> "insert", start |-> 0, end |-> Len(arg[2])] >>


\* The names a list of headers holds.
HeaderNames(headers) == { headers[c] : c \in 1..Len(headers) }

\* The schema of the items of the rows array is as section 4.2 has it for
\* these headers: row_index and every header required, row_index an integer,
\* every header a string under its own name, nothing else allowed.
ItemsAsSpecified(items, headers) ==
    /\ items.type = "object"
    /\ { items.required[i] : i \in 1..Len(items.required) }
          = {RowIndexKey} \cup HeaderNames(headers)
    /\ DOMAIN items.properties = {RowIndexKey} \cup HeaderNames(headers)
    /\ items.properties[RowIndexKey].type = "integer"
    /\ \A h \in HeaderNames(headers) : items.properties[h].type = "string"
    /\ "additionalProperties" \in DOMAIN items
    /\ items.additionalProperties = FALSE

\* C21 (as claimed): for every header list that is not empty, the schema
\* built (by generateSchema of the backend or by buildJsonSchema of the
\* served script) is an object with a required rows array whose items
\* require row_index, an integer, and every header, a string keyed by the
\* header verbatim, and allow no other property.
C21_SchemaRequiresEveryHeader ==
    (gPc \in {"returned", "built"} /\ gHeaders # <<>>) =>
       /\ gSchema.type = "object"
       /\ gSchema.required = <<"rows">>
       /\ gSchema.properties.rows.type = "array"
       /\ ItemsAsSpecified(gSchema.properties.rows.items, gHeaders)

\* What holds of generateSchema: the claim, for the header lists that do not
\* hold the name row_index.
SchemaOfOtherHeaders ==
    (gPc = "returned" /\ gHeaders # <<>>
       /\ RowIndexKey \notin HeaderNames(gHeaders)) =>
       /\ gSchema.type = "object"
       /\ gSchema.required = <<"rows">>
       /\ gSchema.additionalProperties = FALSE
       /\ gSchema.properties.rows.type = "array"
       /\ ItemsAsSpecified(gSchema.properties.rows.items, gHeaders)

\* generateSchema has returned the schema of the one header row_index.
SchemaOfRowIndexHeader ==
    /\ gPc = "returned"
    /\ gHeaders = <<RowIndexKey>>
    /\ gSchema.properties.rows.items.properties[RowIndexKey].type = "string"

\* The sheet after one turn of the loop of lines 115-132 for the result r:
\* the row built from r is appended when the batch has its row_index.
AppendRevised(sheet, batch, r) ==
    IF FindInBatch(batch, r.row_index) = 0 THEN sheet
    ELSE Append(sheet, BuildNewRow(values[1], r))

\* The sheet before the last turn of that loop, which was for the result q.
BeforeRevised(sheet, batch, q) ==
    IF FindInBatch(batch, q.row_index) = 0 THEN sheet
    ELSE SubSeq(sheet, 1, Len(sheet) - 1)

\* C22 (as claimed): the output grid does not depend on the order of the
\* results of a response: when two results for different rows that follow
\* each other in a response have been applied, the grid is the one that
\* applying them in the other order gives.
C22_ResultOrderIrrelevant ==
    [][(pc = "apply" /\ pc' = "apply" /\ cur # <<>> /\ cur' # <<>>
           /\ cur[1].row_index # cur'[1].row_index) =>
          LET batch == batches[batchIndex + 1]
              front == BeforeRevised(dest, batch, cur[1])
          IN  dest' = AppendRevised(AppendRevised(front, batch, cur'[1]),
                                    batch, cur[1])]_vars

\* What holds: every turn of the loop over the results appends to the grid
\* (or leaves it), in the order of the response.
ResultsAppliedInResponseOrder ==
    [][(pc = "apply" /\ pc' = "apply" /\ cur' # <<>>) =>
          dest' = AppendRevised(dest, batches[batchIndex + 1], cur'[1])]_vars

\* The rows the results of batch k (counted from 0) gave, in the order of
\* the response, from the at-th written result on.
RECURSIVE RevisedFrom(_, _, _)
RevisedFrom(k, at, last) ==
    IF at > last THEN <<>>
    ELSE LET here == { a \in applied : a.batch = k /\ a.at = at }
         IN  (IF here = {} THEN <<>>
              ELSE << BuildNewRow(values[1], (CHOOSE a \in here : TRUE).result) >>)
             \o RevisedFrom(k, at + 1, last)

\* The grid that the source grid, the batch size and what the collaborator
\* answered determine: the header row; per batch, the rows of its results
\* and then, when it failed, its source rows; then, when the run is done,
\* the rows without a comment.
ReplayGrid ==
    LET plan == chunkArray(CollectCommented(values), batchSize)
        BatchRows(k) ==
            RevisedFrom(k - 1, 1, Len(plan[k]) + 1)
            \o (IF outcome[k] = "failed"
                THEN [j \in 1..Len(plan[k]) |-> plan[k][j].row]
                ELSE <<>>)
    IN  << values[1] >>
        \o Flatten([k \in 1..Len(outcome) |-> BatchRows(k)])
        \o (IF pc = "done" THEN UncommentedRows ELSE <<>>)

BatchInHand == pc \in {"await", "apply"}

\* C24: the collaborator is called once per batch and never again after a
\* failure, in ascending batch order and one batch at a time: the calls made
\* so far are for the first batches of the plan, one each and in order; a
\* call is made for batch k + 1 only when every earlier batch has ended, with
\* its results applied or its failure handled; and a run that is done has
\* called for every batch.
C24_OneCallPerBatchInOrder ==
    /\ Len(calls) <= Len(batches)
    /\ \A k \in 1..Len(calls) : calls[k] = RowIndexes(batches[k])
    /\ Len(calls) = Len(outcome) + (IF BatchInHand THEN 1 ELSE 0)
    /\ Len(outcome) = batchIndex
    /\ pc = "done" => Len(calls) = Len(batches)

\* A run is done whose first batch failed and whose second batch was then
\* sent and revised: two calls, one per batch.
C24_Witness ==
    /\ pc = "done"
    /\ Len(batches) >= 2
    /\ outcome[1] = "failed"
    /\ outcome[2] = "ok"
    /\ calls = [k \in 1..Len(batches) |-> RowIndexes(batches[k])]

(* ------------------------------------------------------------------ *)
(* StorageService.deleteFiles                                          *)
(* ------------------------------------------------------------------ *)

\* The state of the sheet script and of the functions called on their own.
scriptVars == << runVars, cArray, cSize, cI, cChunks, cPc, gHeaders, gSchema, gPc,
                callVars >>

\* None of them is in use.
ScriptOff ==
    /\ RunOff
    /\ CallsOff
    /\ cArray = <<>>
    /\ cSize = BATCH_SIZE
    /\ cI = 0
    /\ cChunks = <<>>
    /\ cPc = "off"
    /\ gHeaders = <<>>
    /\ gSchema = <<>>
    /\ gPc = "off"

\* The longest list of file names deleted.
MaxFiles == 3

\* The file names: two names and the empty name, which deleteFile refuses.
FileNames == { <<"a">>, <<"b">>, <<>> }

FileLists == SeqsUpTo(FileNames, MaxFiles)

\* results.failed++ and the push, keeping only the newest entry of errors.
RecordFailedOverwriting(results, fileName) ==
    [results EXCEPT !.failed = @ + 1,
                    !.errors = << [fileName |-> fileName] >>]

\* The catch block of a deletion: results.failed++ and
\* results.errors.push({ fileName, error }).
RecordFailed(results, fileName) ==
    [results EXCEPT !.failed = @ + 1,
                    !.errors = Append(@, [fileName |-> fileName])]

\* results.deleted++
RecordDeleted(results) == [results EXCEPT !.deleted = @ + 1]

\* deleteFiles is called with a list of file names; no deletion has begun.
InitStorage ==
    /\ ScriptOff
    /\ rewrite = [pc |-> "off"]
    /\ usage = [pc |-> "off"]
    /\ breaker = [pc |-> "off"]
    /\ \E names \in FileLists :
          storage = [pc        |-> "call",
                     fileNames |-> names,
                     settled   |-> [i \in 1..Len(names) |-> "pending"],
                     resumed   |-> {},
                     results   |-> [deleted |-> 0, failed |-> 0, errors |-> <<>>]]

StorageFrame == UNCHANGED << scriptVars, rewrite, usage, breaker >>

\* The test of the list and the map that starts one deletion per name: an
\* empty list is refused with an exception.
DeleteFilesStarts ==
    /\ storage.pc = "call"
    /\ storage' = [storage EXCEPT !.pc = IF Len(storage.fileNames) = 0
                                         THEN "rejected" ELSE "running"]
    /\ StorageFrame

\* The promise of this.deleteFile(fileName) settles for the name at some
\* place i: it is rejected for a name that is empty once trimmed, and
\* fulfilled or rejected for any other, as the bucket decides.
DeleteFileSettles ==
    /\ storage.pc = "running"
    /\ \E i \in DOMAIN storage.fileNames, ok \in BOOLEAN :
          /\ storage.settled[i] = "pending"
          /\ Trim(storage.fileNames[i]) = <<>> => ~ok
          /\ storage' = [storage EXCEPT
                            !.settled[i] = IF ok THEN "fulfilled" ELSE "rejected"]
    /\ StorageFrame

\* The async callback of some place i resumes after its await and counts
\* the deletion; it runs to its end before any other callback resumes.
DeleteFileResumes ==
    /\ storage.pc = "running"
    /\ \E i \in DOMAIN storage.fileNames :
          /\ storage.settled[i] # "pending"
          /\ i \notin storage.resumed
          /\ storage' = [storage EXCEPT
                            !.resumed = @ \cup {i},
                            !.results = IF storage.settled[i] = "fulfilled"
                                        THEN RecordDeleted(@)
                                        ELSE RecordFailed(@, storage.fileNames[i])]
    /\ StorageFrame

\* Promise.all is fulfilled once every callback has ended, and deleteFiles
\* returns results.
DeleteFilesReturns ==
    /\ storage.pc = "running"
    /\ storage.resumed = DOMAIN storage.fileNames
    /\ storage' = [storage EXCEPT !.pc = "resolved"]
    /\ StorageFrame

NextStorage ==
    \/ DeleteFilesStarts
    \/ DeleteFileSettles
    \/ DeleteFileResumes
    \/ DeleteFilesReturns

SpecStorage == InitStorage /\ [][NextStorage]_vars

\* The places of the list whose deletion failed.
FailedPlaces == { i \in DOMAIN storage.fileNames : storage.settled[i] = "rejected" }

\* C25: for every list of file names that is not empty and whichever of the
\* deletions fail, in whatever order they complete, deleteFiles resolves and
\* does not reject; once it has resolved, deleted + failed is the number of
\* names, failed is the number of failed deletions, and errors holds one
\* entry per failed deletion, under its file name.
C25_DeleteFilesCountsEveryName ==
    /\ (storage.pc = "rejected") => storage.fileNames = <<>>
    /\ (storage.pc = "running" /\ storage.resumed = DOMAIN storage.fileNames) =>
          ENABLED DeleteFilesReturns
    /\ (storage.pc = "resolved") =>
          LET results == storage.results
          IN  /\ results.deleted + results.failed = Len(storage.fileNames)
              /\ results.failed = Cardinality(FailedPlaces)
              /\ Len(results.errors) = Cardinality(FailedPlaces)
              /\ \A name \in FileNames :
                    Cardinality({ j \in DOMAIN results.errors :
                                    results.errors[j].fileName = name })
                    = Cardinality({ i \in FailedPlaces :
                                    storage.fileNames[i] = name })

\* deleteFiles(["a", "b", "a"]) has resolved after the deletions of places
\* 3 and 1 failed, in that order, and the one of place 2 succeeded.
C25_Witness ==
    /\ storage.pc = "resolved"
    /\ storage.fileNames = << <<"a">>, <<"b">>, <<"a">> >>
    /\ storage.settled = <<"rejected", "fulfilled", "rejected">>
    /\ storage.results.deleted = 1
    /\ storage.results.failed = 2
    /\ Len(storage.results.errors) = 2

\* No two results written to the output grid were for one source row.
NoRowRevisedTwice ==
    \A a, b \in applied :
       (a.batch = b.batch /\ a.result.row_index = b.result.row_index) => a = b

\* No batch whose source rows were copied as a fallback had a result
\* written before.
NoFallbackAfterRevision ==
    \A a \in applied :
       a.batch < Len(outcome) => outcome[a.batch + 1] # "failed"

\* C26 (as claimed): no source data row is written to the output grid more
\* than once, whatever the collaborator answers: not when an answer holds
\* two results with one row_index, and not when applying an answer fails
\* after some of its rows were written and the batch falls back to its
\* source rows.
C26_NoSourceRowWrittenTwice ==
    /\ NoRowRevisedTwice
    /\ NoFallbackAfterRevision

\* detectSourceSheet has returned for a workbook that has the Backlog
\* sheet, as every workbook has once the START entry of a run is written.
SourceResolved ==
    /\ fn = "detectSourceSheet"
    /\ fPc = "returned"
    /\ HasSheet(arg, NameBacklog)

\* The source sheet is neither the sheet the run clears or creates and
\* writes its rows to nor the sheet it writes its log to.
SourceIsLeftAlone(source) ==
    /\ generateNextVersion(source) # source
    /\ source # NameBacklog

\* C27 (as claimed): a run never clears or writes the source sheet: the
\* name of the destination sheet differs from the name of the resolved
\* source sheet, and the sheets a run modifies, the destination sheet and
\* the log sheet, are not the source sheet.
C27_SourceSheetNeverWritten ==
    SourceResolved => SourceIsLeftAlone(ret)

\* What holds: the source sheet is left alone in every workbook that has a
\* sheet other than the log sheet.
SourceLeftAloneElsewhere ==
    (SourceResolved /\ arg # <<NameBacklog>>) => SourceIsLeftAlone(ret)

\* What holds of the run in a workbook with a sheet other than the log
\* sheet: the source sheet is neither the destination sheet nor the log
\* sheet, and the sheets of the workbook are those it had, the log sheet and
\* the destination sheet.
RunLeavesSourceAlone ==
    pc # "start" =>
       /\ destName # sourceName
       /\ sourceName # NameBacklog
       /\ destName = generateNextVersion(sourceName)
       /\ \A k \in 1..Len(sheets) :
             \/ sheets[k] \in { NameBacklog, destName }
             \/ \E w \in Workbooks : HasSheet(w, sheets[k])

(* ------------------------------------------------------------------ *)
(* OpenAIService.rewriteBatch                                          *)
(* ------------------------------------------------------------------ *)

\* The most rows a request holds, and the most rows the model emits.
MaxRequestRows == 2

MaxModelRows == 3

\* The row_index values of request rows and of the model's rows.
RowIndexValues == 2..4

\* The requests: rows, of which only row_index matters here.
RequestRows ==
    SeqsUpTo({ [row_index |-> n] : n \in RowIndexValues }, MaxRequestRows)

\* A JSON null among the rows of the model: no row_index (written 0) and
\* no text.
NullRow == [row_index |-> 0, text |-> Undefined]

\* A row of the model's output: a row_index of its own choosing and the
\* rewritten text, or a JSON null.
ModelRows ==
    { [row_index |-> n, text |-> <<"z">>] : n \in RowIndexValues \cup {9} }
    \cup { NullRow }

\* What comes back from the Responses API: an HTTP error, a body without a
\* message whose text parses to an object with a rows array, or such rows.
ModelAnswers ==
    { [kind |-> "error", rows |-> <<>>], [kind |-> "invalid", rows |-> <<>>] }
    \cup { [kind |-> "rows", rows |-> r] : r \in SeqsUpTo(ModelRows, MaxModelRows) }

\* The row with the row_index the model gave it.
KeepRowIndex(row, requested) == row

\* { ...row, row_index: rows[idx].row_index }
FixRowIndex(row, requested) == [row EXCEPT !.row_index = requested.row_index]

\* rewriteBatch is called with the rows of a request.
InitRewrite ==
    /\ ScriptOff
    /\ storage = [pc |-> "off"]
    /\ usage = [pc |-> "off"]
    /\ breaker = [pc |-> "off"]
    /\ \E rows \in RequestRows :
          rewrite = [pc |-> "call", rows |-> rows,
                     answer |-> [kind |-> "none", rows |-> <<>>], ret |-> <<>>]

RewriteFrame == UNCHANGED << scriptVars, storage, usage, breaker >>

\* Lines 134-218: the schema, the prompts and the request; the answer
\* arrives.
RewriteBatchFetches ==
    /\ rewrite.pc = "call"
    /\ \E a \in ModelAnswers :
          rewrite' = [rewrite EXCEPT !.pc = "fetched", !.answer = a]
    /\ RewriteFrame

\* Lines 220-252 and 254-257: an answer that is not ok or has no rows throws,
\* and so does the map when it reads rows[idx] past the end of the request.
RewriteBatchThrows ==
    /\ rewrite.pc = "fetched"
    /\ \/ rewrite.answer.kind # "rows"
       \/ Len(rewrite.answer.rows) > Len(rewrite.rows)
    /\ rewrite' = [rewrite EXCEPT !.pc = "thrown"]
    /\ RewriteFrame

\* Lines 238-247: every row of the model is returned with the row_index of
\* the request row at its place.
RewriteBatchReturns ==
    /\ rewrite.pc = "fetched"
    /\ rewrite.answer.kind = "rows"
    /\ Len(rewrite.answer.rows) <= Len(rewrite.rows)
    /\ rewrite' = [rewrite EXCEPT
                      !.pc = "returned",
                      !.ret = [idx \in 1..Len(rewrite.answer.rows) |->
                                  FixRowIndex(rewrite.answer.rows[idx],
                                              rewrite.rows[idx])]]
    /\ RewriteFrame

NextRewrite ==
    \/ RewriteBatchFetches
    \/ RewriteBatchThrows
    \/ RewriteBatchReturns

SpecRewrite == InitRewrite /\ [][NextRewrite]_vars

\* C28: every row that rewriteBatch returns carries the row_index of the
\* request row at the same place, whatever row_index the model gave it, so
\* no returned row_index is absent from the request; and when the model
\* gives more rows than the request has, the call fails and returns none.
C28_RowIndexTakenFromRequest ==
    /\ (rewrite.pc = "returned") =>
          /\ Len(rewrite.ret) = Len(rewrite.answer.rows)
          /\ \A idx \in 1..Len(rewrite.ret) :
                /\ idx <= Len(rewrite.rows)
                /\ rewrite.ret[idx].row_index = rewrite.rows[idx].row_index
                /\ rewrite.ret[idx].text = rewrite.answer.rows[idx].text
                /\ \E k \in 1..Len(rewrite.rows) :
                      rewrite.rows[k].row_index = rewrite.ret[idx].row_index
    /\ (rewrite.pc \in {"fetched", "returned", "thrown"}
          /\ Len(rewrite.answer.rows) > Len(rewrite.rows)) =>
          /\ rewrite.pc # "returned"
          /\ rewrite.ret = <<>>
          /\ ENABLED RewriteBatchThrows \/ rewrite.pc = "thrown"

\* rewriteBatch has returned rows 3 and 2 for a request of rows 3 and 2 to
\* which the model gave the row_index 9 and a null.
C28_Witness ==
    /\ rewrite.pc = "returned"
    /\ rewrite.rows = << [row_index |-> 3], [row_index |-> 2] >>
    /\ rewrite.answer.rows = << [row_index |-> 9, text |-> <<"z">>], NullRow >>
    /\ rewrite.ret = << [row_index |-> 3, text |-> <<"z">>],
                        [row_index |-> 2, text |-> Undefined] >>

\* rewriteBatch has thrown on three rows of the model for a request of two.
RewriteFailedOnSurplusRows ==
    /\ rewrite.pc = "thrown"
    /\ rewrite.answer.kind = "rows"
    /\ Len(rewrite.answer.rows) = 3
    /\ Len(rewrite.rows) = 2

(* ------------------------------------------------------------------ *)
(* The rewrite routes and the daily usage limit                        *)
(* ------------------------------------------------------------------ *)

\* The daily limit of the FirestoreService (its option maxRequestsPerDay),
\* and the rewrite requests of the one user on the one day.
maxRequestsPerDay == 2

MaxRequests == 3

Requests == 1..MaxRequests

\* The requests are not yet made; the user's daily document does not exist,
\* which checkUsageLimit reads as no call so far.
InitUsage ==
    /\ ScriptOff
    /\ storage = [pc |-> "off"]
    /\ rewrite = [pc |-> "off"]
    /\ breaker = [pc |-> "off"]
    /\ usage = [pc         |-> "on",
                request    |-> [r \in Requests |-> "new"],
                totalCalls |-> 0,
                reached    |-> 0]

UsageFrame == UNCHANGED << scriptVars, storage, rewrite, breaker >>

\* POST / up to its usage check: checkUsageLimit reads the daily document
\* and allows the request when maxRequestsPerDay - totalCalls > 0; else the
\* route answers 429.
CheckUsageLimit ==
    /\ usage.pc = "on"
    /\ \E r \in Requests :
          /\ usage.request[r] = "new"
          /\ usage' = [usage EXCEPT
                          !.request[r] =
                             IF maxRequestsPerDay - usage.totalCalls > 0
                             THEN "allowed" ELSE "refused"]
    /\ UsageFrame

\* The read of checkUsageLimit throws: the catch block allows the request.
CheckUsageLimitFailsOpen ==
    /\ usage.pc = "on"
    /\ \E r \in Requests :
          /\ usage.request[r] = "new"
          /\ usage' = [usage EXCEPT !.request[r] = "allowed"]
    /\ UsageFrame

\* POST / calls openAIService.rewriteCell: the request reaches OpenAI, and
\* the call returns or throws (then the route ends in next(error), with no
\* usage recorded).
RewriteCell ==
    /\ usage.pc = "on"
    /\ \E r \in Requests, ok \in BOOLEAN :
          /\ usage.request[r] = "allowed"
          /\ usage' = [usage EXCEPT
                          !.request[r] = IF ok THEN "rewritten" ELSE "failed",
                          !.reached = @ + 1]
    /\ UsageFrame

\* recordUsage: the transaction adds apiCalls = 1 to totalCalls of the daily
\* document (or creates it), and the route answers.
RecordUsage ==
    /\ usage.pc = "on"
    /\ \E r \in Requests :
          /\ usage.request[r] = "rewritten"
          /\ usage' = [usage EXCEPT
                          !.request[r] = "answered",
                          !.totalCalls = @ + 1]
    /\ UsageFrame

\* The transaction of recordUsage fails: the catch block logs and the route
\* answers all the same.
RecordUsageFails ==
    /\ usage.pc = "on"
    /\ \E r \in Requests :
          /\ usage.request[r] = "rewritten"
          /\ usage' = [usage EXCEPT !.request[r] = "answered"]
    /\ UsageFrame

\* POST /batch: rewriteBatch is called without any usage check, and no
\* usage is recorded.
RewriteBatchRoute ==
    /\ usage.pc = "on"
    /\ \E r \in Requests :
          /\ usage.request[r] = "new"
          /\ usage' = [usage EXCEPT
                          !.request[r] = "batched",
                          !.reached = @ + 1]
    /\ UsageFrame

NextUsage ==
    \/ CheckUsageLimit
    \/ CheckUsageLimitFailsOpen
    \/ RewriteCell
    \/ RecordUsage
    \/ RecordUsageFails
    \/ RewriteBatchRoute

SpecUsage == InitUsage /\ [][NextUsage]_vars

\* C29 (as claimed): for a user and a day, the rewrite requests that get
\* past the usage check and reach OpenAI are never more than
\* maxRequestsPerDay, however the requests and their check and record steps
\* interleave.
C29_DailyLimitNeverExceeded ==
    usage.pc = "on" => usage.reached <= maxRequestsPerDay

\* The requests of POST / that passed the usage check while the recorded
\* calls were below the limit, and reached OpenAI or are about to.
PassedCheck ==
    { r \in Requests : usage.request[r] \in {"allowed", "rewritten", "failed", "answered"} }

\* What holds: the calls recorded are never more than the requests that
\* reached OpenAI nor than the limit, and a request is refused only at the
\* limit.
UsageNeverOvercounted ==
    usage.pc = "on" =>
       /\ usage.totalCalls <= usage.reached
       /\ usage.totalCalls <= Cardinality(PassedCheck)
       /\ (\E r \in Requests : usage.request[r] = "refused") =>
             usage.totalCalls >= maxRequestsPerDay

(* ------------------------------------------------------------------ *)
(* CircuitBreaker                                                      *)
(* ------------------------------------------------------------------ *)

\* The constructor's arguments, the time the clock runs to, and the most
\* wrapped operations in flight at once.
failureThreshold == 2

resetTimeout == 2

MaxTime == 6

MaxInFlight == 3

\* A time that is not set (undefined); the clock starts after it.
NoTime == 0

\* shouldAttemptReset answering yes whatever the time.
ResetAlwaysDue == TRUE

\* shouldAttemptReset(): a reset time is set and has come.
shouldAttemptReset ==
    IF breaker.resetTime = NoTime THEN FALSE
    ELSE breaker.now >= breaker.resetTime

\* The breaker after its constructor: closed, no failure counted.  now is
\* the clock, inFlight the wrapped operations awaited, last what the last
\* step was.
InitBreaker ==
    /\ ScriptOff
    /\ storage = [pc |-> "off"]
    /\ rewrite = [pc |-> "off"]
    /\ usage = [pc |-> "off"]
    /\ breaker = [pc              |-> "on",
                  isOpen          |-> FALSE,
                  failureCount    |-> 0,
                  lastFailureTime |-> NoTime,
                  resetTime       |-> NoTime,
                  now             |-> 1,
                  inFlight        |-> 0,
                  last            |-> "constructed"]

BreakerFrame == UNCHANGED << scriptVars, storage, rewrite, usage >>

\* Time passes.
Tick ==
    /\ breaker.pc = "on"
    /\ breaker.now < MaxTime
    /\ breaker' = [breaker EXCEPT !.now = @ + 1, !.last = "tick"]
    /\ BreakerFrame

\* execute on an open breaker whose reset time has not come: it throws
\* without calling fn.
ExecuteBlocked ==
    /\ breaker.pc = "on"
    /\ breaker.isOpen
    /\ ~shouldAttemptReset
    /\ breaker' = [breaker EXCEPT !.last = "blocked"]
    /\ BreakerFrame

\* execute up to its await: on an open breaker whose reset time has come,
\* the breaker is closed and the count set to zero; fn is called.
ExecuteStarts ==
    /\ breaker.pc = "on"
    /\ breaker.isOpen => shouldAttemptReset
    /\ breaker.inFlight < MaxInFlight
    /\ breaker' = [breaker EXCEPT
                      !.isOpen = FALSE,
                      !.failureCount = IF breaker.isOpen THEN 0 ELSE @,
                      !.inFlight = @ + 1,
                      !.last = IF breaker.isOpen THEN "reset" ELSE "started"]
    /\ BreakerFrame

\* A wrapped operation is fulfilled: onSuccess.
OperationSucceeds ==
    /\ breaker.pc = "on"
    /\ breaker.inFlight > 0
    /\ breaker' = [breaker EXCEPT
                      !.failureCount = 0,
                      !.lastFailureTime = NoTime,
                      !.inFlight = @ - 1,
                      !.last = "succeeded"]
    /\ BreakerFrame

\* A wrapped operation is rejected: onFailure.
OperationFails ==
    /\ breaker.pc = "on"
    /\ breaker.inFlight > 0
    /\ LET opens == breaker.failureCount + 1 >= failureThreshold
       IN  breaker' = [breaker EXCEPT
                         !.failureCount = @ + 1,
                         !.lastFailureTime = breaker.now,
                         !.isOpen = IF opens THEN TRUE ELSE @,
                         !.resetTime = IF opens THEN breaker.now + resetTimeout ELSE @,
                         !.inFlight = @ - 1,
                         !.last = "failed"]
    /\ BreakerFrame

NextBreaker ==
    \/ Tick
    \/ ExecuteBlocked
    \/ ExecuteStarts
    \/ OperationSucceeds
    \/ OperationFails

SpecBreaker == InitBreaker /\ [][NextBreaker]_vars

\* The breaker is open and the reset timeout has not elapsed since it was
\* last opened.
StillOpen ==
    /\ breaker.isOpen
    /\ breaker.now < breaker.resetTime

\* The breaker is open and the reset timeout has elapsed.
ResetDue ==
    /\ breaker.isOpen
    /\ breaker.resetTime # NoTime
    /\ breaker.now >= breaker.resetTime

\* C30: a CircuitBreaker starts no wrapped operation while it is open and
\* the reset timeout has not elapsed since it opened; it is open as soon as
\* failureThreshold failures are counted with no success in between; and
\* once the timeout has elapsed the next execute closes it with the failure
\* count back at zero.  The timeout runs from the failure that last opened
\* the breaker.
C30_BreakerBlocksWhileOpen ==
    /\ [](breaker.pc = "on" =>
            /\ breaker.failureCount >= failureThreshold => breaker.isOpen
            /\ breaker.isOpen => breaker.resetTime # NoTime)
    /\ [][breaker.pc = "on" =>
            /\ (breaker'.last = "failed"
                  /\ breaker'.failureCount >= failureThreshold) =>
                  /\ breaker'.failureCount = breaker.failureCount + 1
                  /\ breaker'.isOpen
                  /\ breaker'.resetTime = breaker.now + resetTimeout
            /\ (breaker'.last = "failed" /\ ~breaker.isOpen
                  /\ breaker'.failureCount < failureThreshold) =>
                  ~breaker'.isOpen
            /\ (breaker'.inFlight > breaker.inFlight) => ~StillOpen
            /\ (StillOpen /\ breaker'.last = "blocked") =>
                  breaker'.inFlight = breaker.inFlight
            /\ (ResetDue /\ breaker'.last \in {"blocked", "reset", "started"}) =>
                  /\ ~breaker'.isOpen
                  /\ breaker'.failureCount = 0
                  /\ breaker'.inFlight = breaker.inFlight + 1]_vars

\* An execute has closed the breaker that failures had opened, the timeout
\* having elapsed since the last of them, and called its operation while
\* another operation is still in flight.
C30_Witness ==
    /\ breaker.pc = "on"
    /\ breaker.last = "reset"
    /\ ~breaker.isOpen
    /\ breaker.failureCount = 0
    /\ breaker.now >= breaker.resetTime
    /\ breaker.resetTime > breaker.lastFailureTime
    /\ breaker.lastFailureTime > 1
    /\ breaker.inFlight >= 2

\* An execute was refused on an open breaker.
BreakerBlocked ==
    /\ breaker.pc = "on"
    /\ breaker.last = "blocked"
    /\ StillOpen


====
